---- MODULE Spec2Model ----
(***************************************************************************)
(* Verification model of the AI-response post-processing of the CET        *)
(* writing coach (geminiService): the score normalisation and bonus        *)
(* calibration of gradeEssay, the JSON sanitizer cleanJsonResponse, the    *)
(* truncation repairer tryRepairTruncatedJson, and the exported operations *)
(* that call callAI and parse its result.                                  *)
(*                                                                         *)
(* Numbers are JavaScript numbers.  A score is kept in eighths of a point  *)
(* (0.125), which are exact in binary floating point, so every sum and     *)
(* product below is the exact value the code computes.  NaN is a value of  *)
(* its own: [nan |-> TRUE, v |-> 0].                                       *)
(***************************************************************************)
EXTENDS Integers, Sequences, FiniteSets, TLC

VARIABLES
    gPc,        \* gradeEssay: "idle", "awaitStep1", "awaitStep2", "returned", "threw"
    step1Data,  \* gradeEssay: the parsed step-1 response, as received
    graded,     \* gradeEssay: step1Data.subScores / totalScore after line 1033
    retraining, \* gradeEssay: where the returned retraining came from
    sanPc,      \* cleanJsonResponse: "idle", "call", "done"
    rawText,    \* cleanJsonResponse: its argument, the raw response text
    sanCleaned, \* cleanJsonResponse: the text handed to JSON.parse (line 188)
    repairCalled, \* cleanJsonResponse: tryRepairTruncatedJson(cleaned) was called
    sanOut,     \* cleanJsonResponse: what the call ended with
    op,         \* the exported operation in progress
    opPc,       \* the operation: "idle", "callAI", "awaitResponse", "returned", "threw"
    config,     \* getFullApiConfig(): the provider selection in force
    requests,   \* requests the operation has issued to the text-generation API
    invocations, \* callAI invocations the operation has made
    respJson,   \* what the last callAI invocation returned to the operation
    failure,    \* the failure the operation met: "none", "apiKeyMissing",
                \* "request", "empty", "parse", "typeError"
    responseSchema, \* callAI: a responseSchema argument was passed
    respText,   \* the raw text of the last response of the text-generation API
    uniqueStudentId, \* wc_users: student_id carries a unique constraint
    wcUsers,    \* wc_users: the ids of the rows of the student_id
    signPc,     \* quickSignInSupabase, per call: "idle", "find", "insert", "done"
    signResult, \* quickSignInSupabase, per call: what it returned
    history,    \* wc_inspiration_history: the records of the (user, topic), oldest first
    savePc,     \* saveAssembledEssayToSupabase, per call: "idle", "find", "insert", "update", "done"
    saveExisting, \* saveAssembledEssayToSupabase, per call: the record its lookup returned
    saveResult  \* saveAssembledEssayToSupabase, per call: what it returned

gradeVars == <<gPc, step1Data, graded, retraining>>
sanVars == <<sanPc, rawText, sanCleaned, repairCalled, sanOut>>
opVars == <<op, opPc, config, requests, invocations, respJson, failure, responseSchema, respText>>
signVars == <<uniqueStudentId, wcUsers, signPc, signResult>>
saveVars == <<history, savePc, saveExisting, saveResult>>
dbVars == <<uniqueStudentId, wcUsers, signPc, signResult, history, savePc, saveExisting, saveResult>>
vars == <<gPc, step1Data, graded, retraining, sanPc, rawText, sanCleaned, repairCalled, sanOut,
          op, opPc, config, requests, invocations, respJson, failure, responseSchema, respText,
          uniqueStudentId, wcUsers, signPc, signResult, history, savePc, saveExisting, saveResult>>

----------------------------------------------------------------------------
(* JavaScript numbers *)

PointsToUnits(p) == 8 * p
HalfPoint == PointsToUnits(1) \div 2

NaN == [nan |-> TRUE, v |-> 0]
Num(n) == [nan |-> FALSE, v |-> n]
IsNaN(x) == x.nan

JsAdd(a, b) == IF a.nan \/ b.nan THEN NaN ELSE Num(a.v + b.v)
JsSub(a, b) == IF a.nan \/ b.nan THEN NaN ELSE Num(a.v - b.v)
\* Math.min / Math.max: NaN when either argument is NaN
MathMin(a, b) == IF a.nan \/ b.nan THEN NaN ELSE IF a.v <= b.v THEN a ELSE b
MathMax(a, b) == IF a.nan \/ b.nan THEN NaN ELSE IF a.v >= b.v THEN a ELSE b
\* relational operators: false when either operand is NaN
JsLe(a, b) == ~a.nan /\ ~b.nan /\ a.v <= b.v
JsGe(a, b) == ~a.nan /\ ~b.nan /\ a.v >= b.v
JsGt(a, b) == ~a.nan /\ ~b.nan /\ a.v > b.v

----------------------------------------------------------------------------
(* Values JSON.parse can put in a field of the step-1 response *)

Undefined == [kind |-> "undefined", num |-> 0, str |-> ""]
Null == [kind |-> "null", num |-> 0, str |-> ""]
Number(n) == [kind |-> "number", num |-> n, str |-> ""]
String(s) == [kind |-> "string", num |-> 0, str |-> s]
Object == [kind |-> "object", num |-> 0, str |-> ""]

\* StringToNumber of the strings the model draws: "" and blanks are 0, a
\* numeric literal is its value, anything else is NaN
StringToNumber(s) ==
    CASE s = "" -> Num(0)
      [] s = " " -> Num(0)
      [] s = "2" -> Num(PointsToUnits(2))
      [] s = "3.5" -> Num(PointsToUnits(3) + HalfPoint)
      [] OTHER -> NaN

\* x || 0
OrZero(x) ==
    CASE x.kind = "undefined" -> Number(0)
      [] x.kind = "null" -> Number(0)
      [] x.kind = "number" /\ x.num = 0 -> Number(0)
      [] x.kind = "string" /\ x.str = "" -> Number(0)
      [] OTHER -> x

\* Number(x), for x a number, a string or a plain object
ToNumber(x) ==
    CASE x.kind = "number" -> Num(x.num)
      [] x.kind = "string" -> StringToNumber(x.str)
      [] x.kind = "undefined" -> NaN
      [] x.kind = "null" -> Num(0)
      [] OTHER -> NaN

----------------------------------------------------------------------------
(* gradeEssay: score normalisation, lines 982-990 *)

dims == <<"content", "organization", "proficiency", "clarity">>
Dims == {"content", "organization", "proficiency", "clarity"}

max == [content |-> PointsToUnits(4), organization |-> PointsToUnits(3),
        proficiency |-> PointsToUnits(5), clarity |-> PointsToUnits(3)]

clamp(v, lo, hi) == MathMax(Num(lo), MathMin(Num(hi), v))

\* a tie rounded towards -Infinity
roundHalfDown(v) == IF v.nan THEN NaN ELSE Num(HalfPoint * ((v.v + HalfPoint \div 2 - 1) \div HalfPoint))

\* Math.round(v * 2) / 2; Math.round rounds a tie towards +Infinity
roundHalf(v) == IF v.nan THEN NaN ELSE Num(HalfPoint * ((v.v + HalfPoint \div 2) \div HalfPoint))

NormalizeSubScore(raw, d) == roundHalf(clamp(ToNumber(OrZero(raw)), 0, max[d]))

SubScoreSum(s) ==
    JsAdd(JsAdd(JsAdd(s["content"], s["organization"]), s["proficiency"]), s["clarity"])

NormalizeScores(data) ==
    LET s == [d \in Dims |-> NormalizeSubScore(data.subScores[d], d)]
    IN  [subScores |-> s, totalScore |-> roundHalf(SubScoreSum(s))]

----------------------------------------------------------------------------
(* gradeEssay: bonus calibration, lines 992-1033 *)

criticalCount(data) == IF data.critical.isArray THEN data.critical.length ELSE 0

BonusConditionStrict(total, crit) ==
    JsGt(total, Num(PointsToUnits(6))) /\ JsLe(total, Num(PointsToUnits(14))) /\ crit <= 2

BonusCondition(total, crit) ==
    JsGe(total, Num(PointsToUnits(6))) /\ JsLe(total, Num(PointsToUnits(14))) /\ crit <= 2

\* the comparator with the headroom order reversed: least headroom first
CompareLeastRoomFirst(s, a, b) ==
    LET roomA == JsSub(Num(max[a]), s[a])
        roomB == JsSub(Num(max[b]), s[b])
    IN  IF roomB # roomA THEN roomA.v - roomB.v ELSE s[a].v - s[b].v

\* the comparator of line 999-1004: negative when a sorts before b
Compare(s, a, b) ==
    LET roomA == JsSub(Num(max[a]), s[a])
        roomB == JsSub(Num(max[b]), s[b])
    IN  IF roomB # roomA THEN roomB.v - roomA.v ELSE s[a].v - s[b].v

\* Array.prototype.sort is stable: insert each element after every element
\* that does not sort after it
RECURSIVE InsertSorted(_, _, _)
InsertSorted(s, sorted, d) ==
    IF sorted = <<>> THEN <<d>>
    ELSE IF Compare(s, Head(sorted), d) <= 0
         THEN <<Head(sorted)>> \o InsertSorted(s, Tail(sorted), d)
         ELSE <<d>> \o sorted

RECURSIVE SortDims(_, _)
SortDims(s, ds) ==
    IF ds = <<>> THEN <<>>
    ELSE InsertSorted(s, SortDims(s, SubSeq(ds, 1, Len(ds) - 1)), ds[Len(ds)])

\* Math.min without the 0.5 cap of an increment
MinRoomBonus(a, b, c) == MathMin(a, b)

Min3(a, b, c) == MathMin(a, MathMin(b, c))

\* one pass of "for (const d of order)", lines 1006-1014 and 1016-1024
RECURSIVE BonusPass(_, _)
BonusPass(st, order) ==
    IF order = <<>> \/ JsLe(st.bonus, Num(0)) THEN st
    ELSE LET d == Head(order)
             room == roundHalf(JsSub(Num(max[d]), st.subScores[d]))
             add == Min3(room, st.bonus, Num(HalfPoint))
             nxt == IF JsGt(add, Num(0))
                    THEN [subScores |-> [st.subScores EXCEPT ![d] = roundHalf(JsAdd(@, add))],
                          bonus |-> roundHalf(JsSub(st.bonus, add))]
                    ELSE st
         IN  BonusPass(nxt, Tail(order))

\* the distribution without its second pass (lines 1015-1025 left out)
DistributeBonusOnePass(s) ==
    BonusPass([subScores |-> s, bonus |-> Num(PointsToUnits(1))], SortDims(s, dims))

\* the distribution run again while the adjusted total is still at most 14
DistributeBonusRepeated(s) ==
    LET order == SortDims(s, dims)
        p1 == BonusPass([subScores |-> s, bonus |-> Num(PointsToUnits(1))], order)
        p2 == IF JsGt(p1.bonus, Num(0)) THEN BonusPass(p1, order) ELSE p1
        again == SortDims(p2.subScores, dims)
        q1 == BonusPass([subScores |-> p2.subScores, bonus |-> Num(PointsToUnits(1))], again)
    IN  IF JsLe(SubScoreSum(p2.subScores), Num(PointsToUnits(14)))
        THEN (IF JsGt(q1.bonus, Num(0)) THEN BonusPass(q1, again) ELSE q1)
        ELSE p2

\* lines 996-1025: the sub-scores and the bonus left after both passes
DistributeBonus(s) ==
    LET order == SortDims(s, dims)
        p1 == BonusPass([subScores |-> s, bonus |-> Num(PointsToUnits(1))], order)
    IN  IF JsGt(p1.bonus, Num(0)) THEN BonusPass(p1, order) ELSE p1

\* lines 1027-1032
BonusTotalKept(total, s) == total

BonusTotal(total, s) == roundHalf(SubScoreSum(s))

Calibrate(n, crit) ==
    IF BonusCondition(n.totalScore, crit)
    THEN LET b == DistributeBonus(n.subScores)
         IN  [subScores |-> b.subScores, totalScore |-> BonusTotal(n.totalScore, b.subScores)]
    ELSE n

\* lines 974-1033 on the parsed response
GradeScores(data) == Calibrate(NormalizeScores(data), criticalCount(data))

----------------------------------------------------------------------------
(* Text.  A string is a sequence of one-character strings. *)

Letters == {"a", "b", "e", "h", "j", "l", "n", "o", "s", "x"}
Digits == {"1", "2"}
\* the grave accent of a code fence; a TLA+ string cannot hold that character,
\* the model writes it as an apostrophe
Backtick == "'"
Char == {"{", "}", "[", "]", "\"", "\\", ",", ":", " ", "\n", Backtick} \cup Letters \cup Digits

\* \s of a regular expression and the white space of String.prototype.trim
IsSpace(c) == c \in {" ", "\n"}

Substring(t, from, to) == SubSeq(t, from, to)

\* t.startsWith(p) at 1-based position i
StartsWithAt(t, p, i) ==
    /\ i + Len(p) - 1 <= Len(t)
    /\ \A k \in 1..Len(p) : t[i + k - 1] = p[k]

RECURSIVE SkipSpace(_, _)
\* the first position >= i that holds no white space (Len(t) + 1 if none)
SkipSpace(t, i) == IF i <= Len(t) /\ IsSpace(t[i]) THEN SkipSpace(t, i + 1) ELSE i

RECURSIVE SkipSpaceBack(_, _)
\* the last position <= i that holds no white space (0 if none)
SkipSpaceBack(t, i) == IF i >= 1 /\ IsSpace(t[i]) THEN SkipSpaceBack(t, i - 1) ELSE i

\* String.prototype.trim
Trim(t) == Substring(t, SkipSpace(t, 1), SkipSpaceBack(t, Len(t)))

\* the least element of a set of positions, 0 when it is empty
FirstOf(S) == IF S = {} THEN 0 ELSE CHOOSE i \in S : \A j \in S : i <= j
LastOf(S) == IF S = {} THEN 0 ELSE CHOOSE i \in S : \A j \in S : i >= j

----------------------------------------------------------------------------
(* JSON.parse, as a recogniser: the position after the value, or -1 when   *)
(* the text is no JSON (JSON.parse throws a SyntaxError).                  *)

\* the characters that may follow a backslash in a JSON string (of Char)
JsonEscapes == {"\"", "\\", "b", "n"}

RECURSIVE ParseString(_, _)
\* i is past the opening quote
ParseString(t, i) ==
    IF i > Len(t) THEN -1
    ELSE IF t[i] = "\"" THEN i + 1
    ELSE IF t[i] = "\\"
         THEN IF i + 1 <= Len(t) /\ t[i + 1] \in JsonEscapes THEN ParseString(t, i + 2) ELSE -1
    ELSE IF t[i] = "\n" THEN -1
    ELSE ParseString(t, i + 1)

RECURSIVE SkipDigits(_, _)
SkipDigits(t, i) == IF i <= Len(t) /\ t[i] \in Digits THEN SkipDigits(t, i + 1) ELSE i

\* i is at the first digit; an exponent "e" needs digits after it
ParseNumber(t, i) ==
    LET j == SkipDigits(t, i)
    IN  IF j <= Len(t) /\ t[j] = "e"
        THEN IF SkipDigits(t, j + 1) > j + 1 THEN SkipDigits(t, j + 1) ELSE -1
        ELSE j

RECURSIVE ParseValue(_, _)
RECURSIVE ParseMembers(_, _)
RECURSIVE ParseElements(_, _)

ParseValue(t, i) ==
    IF i > Len(t) THEN -1
    ELSE CASE t[i] = "{" ->
                LET j == SkipSpace(t, i + 1)
                IN  IF j <= Len(t) /\ t[j] = "}" THEN j + 1 ELSE ParseMembers(t, j)
           [] t[i] = "[" ->
                LET j == SkipSpace(t, i + 1)
                IN  IF j <= Len(t) /\ t[j] = "]" THEN j + 1 ELSE ParseElements(t, j)
           [] t[i] = "\"" -> ParseString(t, i + 1)
           [] t[i] \in Digits -> ParseNumber(t, i)
           [] OTHER -> -1

\* i is at the first character of a member: "key" : value, then , or }
ParseMembers(t, i) ==
    IF i > Len(t) \/ t[i] # "\"" THEN -1
    ELSE LET k == ParseString(t, i + 1)
             c == IF k = -1 THEN -1 ELSE SkipSpace(t, k)
         IN  IF c = -1 \/ c > Len(t) \/ t[c] # ":" THEN -1
             ELSE LET v == ParseValue(t, SkipSpace(t, c + 1))
                      w == IF v = -1 THEN -1 ELSE SkipSpace(t, v)
                  IN  IF w = -1 \/ w > Len(t) THEN -1
                      ELSE IF t[w] = "," THEN ParseMembers(t, SkipSpace(t, w + 1))
                      ELSE IF t[w] = "}" THEN w + 1
                      ELSE -1

\* i is at the first character of an element: value, then , or ]
ParseElements(t, i) ==
    LET v == ParseValue(t, i)
        w == IF v = -1 THEN -1 ELSE SkipSpace(t, v)
    IN  IF w = -1 \/ w > Len(t) THEN -1
        ELSE IF t[w] = "," THEN ParseElements(t, SkipSpace(t, w + 1))
        ELSE IF t[w] = "]" THEN w + 1
        ELSE -1

\* JSON.parse(t) does not throw
JsonValid(t) ==
    LET e == ParseValue(t, SkipSpace(t, 1))
    IN  e # -1 /\ SkipSpace(t, e) = Len(t) + 1

----------------------------------------------------------------------------
(* What a call ends with: a returned string or a thrown error *)

Return(t) == [kind |-> "return", value |-> t]
Throw == [kind |-> "throw", value |-> <<>>]
NoOutcome == [kind |-> "none", value |-> <<>>]

----------------------------------------------------------------------------
(* tryRepairTruncatedJson, lines 197-241 *)

RECURSIVE QuoteScan(_, _, _, _)
\* lines 201-209: inString after the loop; a quote toggles unless the
\* character before it is a backslash
QuoteScan(t, i, inString, lastCharBeforeEnd) ==
    IF i > Len(t) THEN inString
    ELSE QuoteScan(t, i + 1,
                   IF t[i] = "\"" /\ lastCharBeforeEnd # "\\" THEN ~inString ELSE inString,
                   t[i])

\* lines 200-212
CloseString(t) == IF QuoteScan(t, 1, FALSE, "") THEN t \o <<"\"">> ELSE t

RECURSIVE SkipNonQuote(_, _)
SkipNonQuote(t, i) == IF i <= Len(t) /\ t[i] # "\"" THEN SkipNonQuote(t, i + 1) ELSE i

\* /,\s*"[^"]*"\s*:\s*("[^"]*)?$/s matches t from position i to its end
DanglingAt(t, i) ==
    /\ t[i] = ","
    /\ LET q1 == SkipSpace(t, i + 1)
       IN  /\ q1 <= Len(t) /\ t[q1] = "\""
           /\ LET q2 == SkipNonQuote(t, q1 + 1)
              IN  /\ q2 <= Len(t)
                  /\ LET c == SkipSpace(t, q2 + 1)
                     IN  /\ c <= Len(t) /\ t[c] = ":"
                         /\ LET v == SkipSpace(t, c + 1)
                            IN  \/ v = Len(t) + 1
                                \/ /\ t[v] = "\""
                                   /\ SkipNonQuote(t, v + 1) = Len(t) + 1

\* the pattern of line 216 without its $ anchor: the position after the match
\* that begins at i, 0 when there is none
UnanchoredDanglingEnd(t, i) ==
    IF t[i] # "," THEN 0
    ELSE LET q1 == SkipSpace(t, i + 1)
             q2 == IF q1 <= Len(t) /\ t[q1] = "\"" THEN SkipNonQuote(t, q1 + 1) ELSE Len(t) + 1
             c == IF q2 <= Len(t) THEN SkipSpace(t, q2 + 1) ELSE Len(t) + 1
             v == IF c <= Len(t) /\ t[c] = ":" THEN SkipSpace(t, c + 1) ELSE 0
         IN  IF v = 0 THEN 0
             ELSE IF v <= Len(t) /\ t[v] = "\"" THEN SkipNonQuote(t, v + 1)
             ELSE v

\* the dangling pair removed wherever the pattern first matches, not only at
\* the end of the text
DropDanglingPairUnanchored(t) ==
    LET i == FirstOf({ k \in 1..Len(t) : UnanchoredDanglingEnd(t, k) # 0 })
    IN  IF i = 0 THEN t
        ELSE Substring(t, 1, i - 1) \o Substring(t, UnanchoredDanglingEnd(t, i), Len(t))

\* line 216: replace the first (leftmost) match by ''
DropDanglingPair(t) ==
    LET i == FirstOf({ k \in 1..Len(t) : DanglingAt(t, k) })
    IN  IF i = 0 THEN t ELSE Substring(t, 1, i - 1)

\* line 217: /,\s*$/s
DropTrailingComma(t) ==
    LET e == SkipSpaceBack(t, Len(t))
    IN  IF e >= 1 /\ t[e] = "," THEN Substring(t, 1, e - 1) ELSE t

RECURSIVE CloserStack(_, _, _, _, _)
\* lines 220-233: the stack after the loop (its top is the last element)
CloserStack(t, i, stack, inStr, escape) ==
    IF i > Len(t) THEN stack
    ELSE LET ch == t[i]
         IN  IF escape THEN CloserStack(t, i + 1, stack, inStr, FALSE)
             ELSE IF ch = "\\" /\ inStr THEN CloserStack(t, i + 1, stack, inStr, TRUE)
             ELSE IF ch = "\"" THEN CloserStack(t, i + 1, stack, ~inStr, FALSE)
             ELSE IF inStr THEN CloserStack(t, i + 1, stack, inStr, FALSE)
             ELSE IF ch = "{" THEN CloserStack(t, i + 1, Append(stack, "}"), inStr, FALSE)
             ELSE IF ch = "[" THEN CloserStack(t, i + 1, Append(stack, "]"), inStr, FALSE)
             ELSE IF ch \in {"}", "]"} /\ Len(stack) > 0 /\ stack[Len(stack)] = ch
                  THEN CloserStack(t, i + 1, SubSeq(stack, 1, Len(stack) - 1), inStr, FALSE)
             ELSE CloserStack(t, i + 1, stack, inStr, FALSE)

RECURSIVE InStrAfterScan(_, _, _, _)
\* lines 220-233: inStr after the loop
InStrAfterScan(t, i, inStr, escape) ==
    IF i > Len(t) THEN inStr
    ELSE IF escape THEN InStrAfterScan(t, i + 1, inStr, FALSE)
    ELSE IF t[i] = "\\" /\ inStr THEN InStrAfterScan(t, i + 1, inStr, TRUE)
    ELSE IF t[i] = "\"" THEN InStrAfterScan(t, i + 1, ~inStr, FALSE)
    ELSE InStrAfterScan(t, i + 1, inStr, FALSE)

RECURSIVE PopAll(_)
\* lines 236-238: while (stack.length > 0) repaired += stack.pop()
PopAll(stack) ==
    IF Len(stack) = 0 THEN <<>>
    ELSE <<stack[Len(stack)]>> \o PopAll(SubSeq(stack, 1, Len(stack) - 1))

CloseBrackets(t) == t \o PopAll(CloserStack(t, 1, <<>>, FALSE, FALSE))

\* lines 198-217: repaired as the bracket scan of step 3 finds it
RepairedBeforeClosing(text) == DropTrailingComma(DropDanglingPair(CloseString(text)))

RepairText(text) == CloseBrackets(DropTrailingComma(DropDanglingPair(CloseString(text))))

\* a repairer that validates its result and throws when it does not parse
tryRepairOrThrow(text) ==
    IF JsonValid(RepairText(text)) THEN Return(RepairText(text)) ELSE Throw

tryRepairTruncatedJson(text) == Return(RepairText(text))

----------------------------------------------------------------------------
(* cleanJsonResponse, lines 161-194 *)

Fence == <<Backtick, Backtick, Backtick>>
JsonTag == <<"j", "s", "o", "n">>

FenceAt(t, i) == StartsWithAt(t, Fence, i)

\* where \n?``` matches at position k: the position after the match, else 0
CloseFenceAt(t, k) ==
    IF k <= Len(t) /\ t[k] = "\n" /\ FenceAt(t, k + 1) THEN k + 4
    ELSE IF FenceAt(t, k) THEN k + 3
    ELSE 0

\* the match with a greedy group: it ends at the last closing fence
CodeBlockMatchGreedy(t) ==
    LET open == FirstOf({ i \in 1..Len(t) : FenceAt(t, i) })
        tagged == open # 0 /\ StartsWithAt(t, JsonTag, open + 3)
        from == IF open = 0 THEN 0 ELSE SkipSpace(t, IF tagged THEN open + 7 ELSE open + 3)
        close == IF open = 0 THEN 0
                 ELSE LastOf({ k \in from..Len(t) : FenceAt(t, k) })
    IN  IF close = 0 THEN [found |-> FALSE, group |-> <<>>]
        ELSE [found |-> TRUE, group |-> Substring(t, from, close - 1)]

\* cleaned.match(/```(?:json)?\s*\n?([\s\S]*?)\n?```/): the capture group of
\* the leftmost match, [found |-> FALSE] when there is none.  The optional
\* tag and \s* are greedy, the group is lazy.
CodeBlockMatch(t) ==
    LET open == FirstOf({ i \in 1..Len(t) : FenceAt(t, i) })
        tagged == open # 0 /\ StartsWithAt(t, JsonTag, open + 3)
        from == IF open = 0 THEN 0 ELSE SkipSpace(t, IF tagged THEN open + 7 ELSE open + 3)
        close == IF open = 0 THEN 0
                 ELSE FirstOf({ k \in from..Len(t) : CloseFenceAt(t, k) # 0 })
    IN  IF close = 0 THEN [found |-> FALSE, group |-> <<>>]
        ELSE [found |-> TRUE, group |-> Substring(t, from, close - 1)]

\* lines 162-168
StripCodeBlock(text) ==
    LET cleaned == Trim(text)
        codeBlockMatch == CodeBlockMatch(cleaned)
    IN  IF codeBlockMatch.found THEN Trim(codeBlockMatch.group) ELSE cleaned

\* the leading text cut at the last opening character instead of the first
StripLeadingAtLast(cleaned) ==
    IF Len(cleaned) > 0 /\ cleaned[1] \in {"{", "["} THEN cleaned
    ELSE LET jsonStart == LastOf({ i \in 1..Len(cleaned) : cleaned[i] \in {"[", "{"} })
         IN  IF jsonStart # 0 THEN Substring(cleaned, jsonStart, Len(cleaned)) ELSE cleaned

\* lines 171-176
StripLeadingText(cleaned) ==
    IF Len(cleaned) > 0 /\ cleaned[1] \in {"{", "["} THEN cleaned
    ELSE LET jsonStart == FirstOf({ i \in 1..Len(cleaned) : cleaned[i] \in {"[", "{"} })
         IN  IF jsonStart # 0 THEN Substring(cleaned, jsonStart, Len(cleaned)) ELSE cleaned

\* lines 179-184
StripTrailingText(cleaned) ==
    IF Len(cleaned) > 0 /\ cleaned[Len(cleaned)] \in {"}", "]"} THEN cleaned
    ELSE LET lastBrace == LastOf({ i \in 1..Len(cleaned) : cleaned[i] \in {"}", "]"} })
         IN  IF lastBrace # 0 THEN Substring(cleaned, 1, lastBrace) ELSE cleaned

\* lines 162-184: the text handed to JSON.parse
Cleaned(text) == StripTrailingText(StripLeadingText(StripCodeBlock(text)))

\* lines 187-193 without the try/catch: the SyntaxError escapes
ParseOrThrow(cleaned) == IF JsonValid(cleaned) THEN Return(cleaned) ELSE Throw

\* the repaired text validated once more, the unrepaired text returned when
\* it still does not parse
ParseRepairValidated(cleaned) ==
    IF JsonValid(cleaned) THEN Return(cleaned)
    ELSE IF JsonValid(RepairText(cleaned)) THEN Return(RepairText(cleaned))
    ELSE Return(cleaned)

\* lines 187-193
ParseOrRepair(cleaned) ==
    IF JsonValid(cleaned) THEN Return(cleaned) ELSE tryRepairTruncatedJson(cleaned)

cleanJsonResponse(text) == ParseOrRepair(Cleaned(text))

----------------------------------------------------------------------------
(* gradeEssay as a state machine.  The function suspends twice, at the two *)
(* callAI awaits (lines 963 and 1130); each action is the code that runs   *)
(* when one of them settles.                                               *)

RawOver == 1
MaxCritical == 3

\* in-range half points of dimension d
GridScores(d) == { Number(HalfPoint * h) : h \in 0..(max[d] \div HalfPoint) }

\* out-of-range numbers, off-grid numbers, numeric and non-numeric strings,
\* null, a missing field, an object
SpecialScores(d) ==
    {Undefined, Null, Object, String("abc"), String("3.5"),
     Number(1), Number(HalfPoint \div 2), Number(HalfPoint + HalfPoint \div 2),
     Number(PointsToUnits(2))}
    \cup { Number(0 - PointsToUnits(k)) : k \in 1..RawOver }
    \cup { Number(max[d] + PointsToUnits(k) - 1) : k \in 1..RawOver }

SubScoreInputs ==
    { s \in [Dims -> UNION { GridScores(d) : d \in Dims }] : \A d \in Dims : s[d] \in GridScores(d) }
    \cup
    { s \in [Dims -> UNION { SpecialScores(d) : d \in Dims }] : \A d \in Dims : s[d] \in SpecialScores(d) }

NoSubScores == [d \in Dims |-> Undefined]

CriticalInputs ==
    {[isArray |-> FALSE, length |-> 0]} \cup { [isArray |-> TRUE, length |-> n] : n \in 0..MaxCritical }

NoData == [hasSubScores |-> FALSE, subScores |-> NoSubScores, totalScore |-> Undefined,
           critical |-> [isArray |-> FALSE, length |-> 0]]
NoGrade == [subScores |-> [d \in Dims |-> Num(0)], totalScore |-> Num(0)]

GradeIdle ==
    /\ gPc = "idle"
    /\ step1Data = NoData
    /\ graded = NoGrade
    /\ retraining = "none"

SanIdle ==
    /\ sanPc = "idle"
    /\ rawText = <<>>
    /\ sanCleaned = <<>>
    /\ repairCalled = FALSE
    /\ sanOut = NoOutcome

NoConfig == [provider |-> "google", baseUrl |-> FALSE, apiKey |-> FALSE]

OpIdle ==
    /\ op = "none"
    /\ opPc = "idle"
    /\ config = NoConfig
    /\ requests = 0
    /\ invocations = 0
    /\ respJson = NoOutcome
    /\ failure = "none"
    /\ responseSchema = TRUE
    /\ respText = <<>>

\* the concurrent calls of a database operation
Calls == {"first", "second"}

\* a call has returned nothing yet
NoResult == [data |-> "none", error |-> FALSE]

SignIdle ==
    /\ uniqueStudentId = FALSE
    /\ wcUsers = {}
    /\ signPc = [p \in Calls |-> "idle"]
    /\ signResult = [p \in Calls |-> NoResult]

NoRecord == [id |-> 0, essay |-> "none", others |-> "none"]

SaveIdle ==
    /\ history = <<>>
    /\ savePc = [p \in Calls |-> "idle"]
    /\ saveExisting = [p \in Calls |-> NoRecord]
    /\ saveResult = [p \in Calls |-> NoResult]

DbIdle == SignIdle /\ SaveIdle

\* gradeEssay has been called and waits for the step-1 response
Init ==
    /\ gPc = "awaitStep1"
    /\ step1Data = NoData
    /\ graded = NoGrade
    /\ retraining = "none"
    /\ SanIdle
    /\ OpIdle
    /\ DbIdle

\* lines 965-971: the step-1 response does not parse; gradeEssay rejects
GradeStep1ParseFails ==
    /\ gPc = "awaitStep1"
    /\ gPc' = "threw"
    /\ UNCHANGED <<step1Data, graded, retraining>>
    /\ UNCHANGED sanVars
    /\ UNCHANGED dbVars
    /\ UNCHANGED opVars

\* lines 965-1130: the step-1 response parses; defaults, normalisation and
\* calibration run, then the step-2 call is issued
GradeStep1Parsed ==
    /\ gPc = "awaitStep1"
    /\ \E has \in BOOLEAN, s \in SubScoreInputs, c \in CriticalInputs,
          t \in {Undefined, Number(PointsToUnits(9))} :
          LET data == [hasSubScores |-> has,
                       subScores |-> IF has THEN s ELSE NoSubScores,
                       totalScore |-> t, critical |-> c]
          IN  /\ (~has => s = NoSubScores)
              /\ step1Data' = data
              /\ graded' = GradeScores(data)
    /\ gPc' = "awaitStep2"
    /\ UNCHANGED retraining
    /\ UNCHANGED sanVars
    /\ UNCHANGED dbVars
    /\ UNCHANGED opVars

\* line 1130: the step-2 callAI rejects (HTTP error, empty content); nothing
\* catches it, gradeEssay rejects
GradeStep2CallFails ==
    /\ gPc = "awaitStep2"
    /\ gPc' = "threw"
    /\ step1Data' = NoData
    /\ graded' = NoGrade
    /\ UNCHANGED retraining
    /\ UNCHANGED sanVars
    /\ UNCHANGED dbVars
    /\ UNCHANGED opVars

\* lines 1132-1147: the step-2 response arrives; an unparseable one gives the
\* empty retraining; gradeEssay returns {...step1Data, retraining}
GradeStep2Returns ==
    /\ gPc = "awaitStep2"
    /\ \E parses \in BOOLEAN : retraining' = IF parses THEN "step2" ELSE "empty"
    /\ gPc' = "returned"
    /\ UNCHANGED <<step1Data, graded>>
    /\ UNCHANGED sanVars
    /\ UNCHANGED dbVars
    /\ UNCHANGED opVars

Next ==
    \/ GradeStep1ParseFails
    \/ GradeStep1Parsed
    \/ GradeStep2CallFails
    \/ GradeStep2Returns

Spec == Init /\ [][Next]_vars

----------------------------------------------------------------------------
(* cleanJsonResponse as a state machine: one call on one response text.    *)
(* The texts are valid JSON documents, every truncation of one (the output *)
(* limit cuts a response at any position), each wrapped the ways a model   *)
(* wraps its answer, and every short string over the structural characters.*)

MaxLen == 3

\* {"a": "hello"}
DocHello ==
    <<"{", "\"", "a", "\"", ":", " ", "\"", "h", "e", "l", "l", "o", "\"", "}">>

\* {"a": 1, "b": [1, 2, 1]}
DocNested ==
    <<"{", "\"", "a", "\"", ":", " ", "1", ",", " ", "\"", "b", "\"", ":", " ", "[", "1", ",", " ", "2", ",", " ", "1", "]", "}">>

\* {"x":1}
DocX ==
    <<"{", "\"", "x", "\"", ":", "1", "}">>

\* {"a": "he\n"}
DocEscape ==
    <<"{", "\"", "a", "\"", ":", " ", "\"", "h", "e", "\\", "n", "\"", "}">>

\* {"a": ["\\", 1]}
DocBackslash ==
    <<"{", "\"", "a", "\"", ":", " ", "[", "\"", "\\", "\\", "\"", ",", " ", "1", "]", "}">>

\* {"a":"'''b'''"}
DocFenceInString ==
    <<"{", "\"", "a", "\"", ":", "\"", Backtick, Backtick, Backtick, "b", Backtick, Backtick, Backtick, "\"", "}">>

\* "{"
DocBraceString ==
    <<"\"", "{", "\"">>

\* [1, {"b": "x"}]
DocArray ==
    <<"[", "1", ",", " ", "{", "\"", "b", "\"", ":", " ", "\"", "x", "\"", "}", "]">>

\* {"a": 1, "b": "x"}
DocTwoMembers ==
    <<"{", "\"", "a", "\"", ":", " ", "1", ",", " ", "\"", "b", "\"", ":", " ", "\"", "x", "\"", "}">>

\* 12
DocNumber ==
    <<"1", "2">>

\* {"a": "x\"b"}
DocEscapedQuote ==
    <<"{", "\"", "a", "\"", ":", " ", "\"", "x", "\\", "\"", "b", "\"", "}">>

Docs ==
    {DocHello, DocNested, DocX, DocEscape, DocBackslash, DocFenceInString,
     DocBraceString, DocArray, DocTwoMembers, DocNumber, DocEscapedQuote}

Prefixes(d) == { SubSeq(d, 1, n) : n \in 0..Len(d) }
Truncations == UNION { Prefixes(d) : d \in Docs }

ProseBefore == <<"a", ":", " ">>
ProseAfter == <<" ", "a">>
FenceOpenJson == Fence \o JsonTag \o <<"\n">>
FenceClose == <<"\n">> \o Fence
SecondBlock == <<"\n">> \o Fence \o <<"\n", "[", "1", "]">> \o FenceClose

Wraps == {"bare", "spaced", "fenced", "fencedJson", "prose", "proseFenced", "openFence", "twoBlocks"}

Wrap(w, b) ==
    CASE w = "bare" -> b
      [] w = "spaced" -> <<" ">> \o b \o <<"\n">>
      [] w = "fenced" -> Fence \o b \o Fence
      [] w = "fencedJson" -> FenceOpenJson \o b \o FenceClose
      [] w = "prose" -> ProseBefore \o b \o ProseAfter
      [] w = "proseFenced" -> ProseBefore \o FenceOpenJson \o b \o FenceClose \o ProseAfter
      [] w = "openFence" -> FenceOpenJson \o b
      [] w = "twoBlocks" -> FenceOpenJson \o b \o FenceClose \o SecondBlock

CoreChars == {"{", "}", "[", "]", "\"", "\\", ",", ":", " ", "\n", Backtick, "a", "1"}
ShortTexts == UNION { [1..n -> CoreChars] : n \in 0..MaxLen }

ResponseTexts == { Wrap(w, b) : w \in Wraps, b \in Truncations } \cup ShortTexts

\* a response text has arrived and cleanJsonResponse is called on it
SanInit ==
    /\ GradeIdle
    /\ OpIdle
    /\ DbIdle
    /\ sanPc = "call"
    /\ rawText \in ResponseTexts
    /\ sanCleaned = <<>>
    /\ repairCalled = FALSE
    /\ sanOut = NoOutcome

\* lines 161-194, with the call of tryRepairTruncatedJson (197-241) it makes
CleanJsonResponseCall ==
    /\ sanPc = "call"
    /\ sanCleaned' = Cleaned(rawText)
    /\ repairCalled' = ~JsonValid(Cleaned(rawText))
    /\ sanOut' = cleanJsonResponse(rawText)
    /\ sanPc' = "done"
    /\ UNCHANGED rawText
    /\ UNCHANGED gradeVars
    /\ UNCHANGED opVars
    /\ UNCHANGED dbVars

SanNext == CleanJsonResponseCall

SanSpec == SanInit /\ [][SanNext]_vars

----------------------------------------------------------------------------
(* The exported operations as a state machine: one operation, from its     *)
(* call to its return or rejection.  Every exported operation calls callAI *)
(* with a schema and parses what comes back; gradeEssay does so twice.  An *)
(* action is the code that runs between two awaits.                        *)

Ops ==
    {"fetchInspirationCards", "validateIdea", "fetchLanguageScaffolds",
     "fetchDimensionKeywords", "validateSentence", "fetchMoreCollocations",
     "analyzeDraft", "generateEssayIntroConclusion", "gradeEssay",
     "fetchDrillItems", "evaluateRetrainingAttempt"}

\* getFullApiConfig, lines 74-87: a stored configuration counts only with an
\* API key; the default is the google provider with the key of the build
Configs ==
    {NoConfig} \cup
    { [provider |-> p, baseUrl |-> b, apiKey |-> TRUE] : p \in {"google", "openai"}, b \in BOOLEAN }

\* line 253: !isGoogle && fullConfig.baseUrl
UsesOpenAICompatible(c) == c.provider # "google" /\ c.baseUrl

\* the failed request is issued once more instead of being thrown
RequestErrorRetried(n) == [opPc |-> "awaitResponse", requests |-> n + 1, failure |-> "request"]

\* lines 137-140 (and a rejected fetch or generateContent): the error is
\* thrown; neither callAI nor an operation catches it
RequestError(n) == [opPc |-> "threw", requests |-> n, failure |-> "request"]

\* callAI up to its await, lines 249-291: getClient throws without an API
\* key (line 97), otherwise exactly one request goes out
callAI(c, n) ==
    IF UsesOpenAICompatible(c) \/ c.apiKey
    THEN [opPc |-> "awaitResponse", requests |-> n + 1, failure |-> "none"]
    ELSE [opPc |-> "threw", requests |-> n, failure |-> "apiKeyMissing"]

\* a callAI whose google path returns the response text as it came
callAIResultUnsanitized(c, schema, text) ==
    IF UsesOpenAICompatible(c)
    THEN (IF text = <<>> THEN Throw ELSE cleanJsonResponse(text))
    ELSE Return(text)

\* lines 150-157 and 295-296: what callAI returns for the response text.  The
\* OpenAI-compatible path throws on empty content and sanitizes the rest;
\* the google path sanitizes only when a responseSchema was passed
callAIResult(c, schema, text) ==
    IF UsesOpenAICompatible(c)
    THEN (IF text = <<>> THEN Throw ELSE cleanJsonResponse(text))
    ELSE IF schema THEN cleanJsonResponse(text)
    ELSE Return(text)

\* a failed parse yields the empty object instead of an error
safeJsonParseOrEmpty(json) == IF JsonValid(json) THEN Return(json) ELSE Return(<<"{", "}">>)

\* safeJsonParse, lines 65-72, and the step-1 parse of gradeEssay, lines
\* 965-971; the parsed value stands as the text it was parsed from
safeJsonParse(json) == IF JsonValid(json) THEN Return(json) ELSE Throw

\* the type of the value JSON.parse gives for a valid text
JsonKind(json) ==
    LET c == json[SkipSpace(json, 1)]
    IN  CASE c = "{" -> "object"
          [] c = "[" -> "array"
          [] c = "\"" -> "string"
          [] OTHER -> "number"

\* the fields gradeEssay reads from the parsed step-1 value: the documents
\* of the corpus have none of subScores, totalScore, issueOverview
Step1DataOf(json) == NoData

\* the response texts of the operation machine: each document, whole or cut
\* at any position, and each document in a json code block
ApiTexts == Truncations \cup { Wrap("fencedJson", d) : d \in Docs }

\* the position of gradeEssay that goes with the operation's
gPcOf(o, pc, awaiting) ==
    IF o # "gradeEssay" THEN "idle"
    ELSE IF pc = "awaitResponse" THEN awaiting ELSE pc

OpInit ==
    /\ GradeIdle
    /\ SanIdle
    /\ DbIdle
    /\ op \in Ops \cup {"callAI"}
    /\ responseSchema \in BOOLEAN
    /\ op \in Ops => responseSchema
    /\ opPc = "callAI"
    /\ config = NoConfig
    /\ requests = 0
    /\ invocations = 0
    /\ respJson = NoOutcome
    /\ failure = "none"
    /\ respText = <<>>

\* the operation is called: it builds its prompt and calls callAI (first
\* call: lines 349, 394, 473, 493, 511, 542, 589, 613, 963, 1187, 1221)
CallAI ==
    /\ opPc = "callAI"
    /\ \E c \in Configs :
         LET r == callAI(c, requests)
         IN  /\ config' = c
             /\ invocations' = invocations + 1
             /\ opPc' = r.opPc
             /\ requests' = r.requests
             /\ failure' = r.failure
             /\ gPc' = gPcOf(op, r.opPc, "awaitStep1")
    /\ UNCHANGED <<op, responseSchema, respText, respJson, step1Data, graded, retraining>>
    /\ UNCHANGED sanVars
    /\ UNCHANGED dbVars

\* the request fails: HTTP status not ok, or the fetch or the SDK call rejects
RequestFails ==
    /\ opPc = "awaitResponse"
    /\ LET r == RequestError(requests)
       IN  /\ opPc' = r.opPc
           /\ requests' = r.requests
           /\ failure' = r.failure
           /\ gPc' = gPcOf(op, r.opPc, gPc)
    /\ UNCHANGED <<op, responseSchema, respText, config, invocations, respJson, step1Data, graded, retraining>>
    /\ UNCHANGED sanVars
    /\ UNCHANGED dbVars

\* lines 150-155: the OpenAI-compatible response has no content
EmptyContent ==
    /\ opPc = "awaitResponse"
    /\ UsesOpenAICompatible(config)
    /\ callAIResult(config, responseSchema, <<>>) = Throw
    /\ opPc' = "threw"
    /\ failure' = "empty"
    /\ gPc' = gPcOf(op, "threw", gPc)
    /\ UNCHANGED <<op, responseSchema, respText, config, requests, invocations, respJson, step1Data, graded, retraining>>
    /\ UNCHANGED sanVars
    /\ UNCHANGED dbVars

\* a response text arrives, callAI returns it sanitized and an operation
\* other than gradeEssay returns safeJsonParse of it
TextResponse ==
    /\ opPc = "awaitResponse"
    /\ op \in Ops \ {"gradeEssay"}
    /\ \E text \in ApiTexts :
         /\ callAIResult(config, responseSchema, text) # Throw
         /\ respText' = text
         /\ respJson' = callAIResult(config, responseSchema, text)
         /\ LET parsed == safeJsonParse(callAIResult(config, responseSchema, text).value)
            IN  /\ opPc' = IF parsed = Throw THEN "threw" ELSE "returned"
                /\ failure' = IF parsed = Throw THEN "parse" ELSE "none"
    /\ UNCHANGED <<op, responseSchema, config, requests, invocations>>
    /\ UNCHANGED gradeVars
    /\ UNCHANGED sanVars
    /\ UNCHANGED dbVars

\* gradeEssay, lines 963-1130: the step-1 text arrives; a text that does not
\* parse is thrown, a parsed primitive fails at the first field assignment
\* (line 974, module code is strict), otherwise the scores are normalised and
\* the step-2 callAI is made
GradeStep1Response ==
    /\ opPc = "awaitResponse"
    /\ op = "gradeEssay"
    /\ gPc = "awaitStep1"
    /\ \E text \in ApiTexts, c \in Configs :
         LET json == callAIResult(config, responseSchema, text)
             parsed == safeJsonParse(json.value)
             r == callAI(c, requests)
         IN  /\ json # Throw
             /\ respText' = text
             /\ respJson' = json
             /\ IF parsed = Throw
                THEN /\ opPc' = "threw" /\ failure' = "parse" /\ gPc' = "threw"
                     /\ c = config
                     /\ UNCHANGED <<config, requests, invocations, step1Data, graded>>
                ELSE IF JsonKind(json.value) \in {"string", "number"}
                THEN /\ opPc' = "threw" /\ failure' = "typeError" /\ gPc' = "threw"
                     /\ c = config
                     /\ UNCHANGED <<config, requests, invocations, step1Data, graded>>
                ELSE /\ step1Data' = Step1DataOf(json.value)
                     /\ graded' = GradeScores(Step1DataOf(json.value))
                     /\ config' = c
                     /\ invocations' = invocations + 1
                     /\ opPc' = r.opPc
                     /\ requests' = r.requests
                     /\ failure' = r.failure
                     /\ gPc' = gPcOf(op, r.opPc, "awaitStep2")
    /\ UNCHANGED <<op, responseSchema, retraining>>
    /\ UNCHANGED sanVars
    /\ UNCHANGED dbVars

\* gradeEssay, lines 1130-1147: the step-2 text arrives; a text that does not
\* parse is logged and replaced by the empty retraining, and gradeEssay
\* returns the step-1 result with it
GradeStep2Response ==
    /\ opPc = "awaitResponse"
    /\ op = "gradeEssay"
    /\ gPc = "awaitStep2"
    /\ \E text \in ApiTexts :
         LET json == callAIResult(config, responseSchema, text)
         IN  /\ json # Throw
             /\ respText' = text
             /\ respJson' = json
             /\ retraining' = IF JsonValid(json.value) THEN "step2" ELSE "empty"
             /\ failure' = IF JsonValid(json.value) THEN "none" ELSE "parse"
    /\ opPc' = "returned"
    /\ gPc' = "returned"
    /\ UNCHANGED <<op, responseSchema, config, requests, invocations, step1Data, graded>>
    /\ UNCHANGED sanVars
    /\ UNCHANGED dbVars

\* callAI called on its own, lines 293-296: the text arrives and callAI
\* returns
CallAIReturns ==
    /\ opPc = "awaitResponse"
    /\ op = "callAI"
    /\ \E text \in ApiTexts :
         /\ callAIResult(config, responseSchema, text) # Throw
         /\ respText' = text
         /\ respJson' = callAIResult(config, responseSchema, text)
    /\ opPc' = "returned"
    /\ UNCHANGED <<op, responseSchema, config, requests, invocations, failure>>
    /\ UNCHANGED gradeVars
    /\ UNCHANGED sanVars
    /\ UNCHANGED dbVars

OpNext ==
    \/ CallAI
    \/ CallAIReturns
    \/ RequestFails
    \/ EmptyContent
    \/ TextResponse
    \/ GradeStep1Response
    \/ GradeStep2Response

OpSpec == OpInit /\ [][OpNext]_vars

(***************************************************************************)
(* quickSignInSupabase, supabaseDataService.ts lines 31-66: concurrent calls *)
(* for one student_id.  A row of wc_users is named by where it came from: *)
(* "existing" was there before, "first" and "second" are the rows the calls *)
(* inserted.  The schema of wc_users is not part of the sources, so *)
(* whether student_id is unique is an unknown of the environment. *)
(***************************************************************************)

ExistingUser == "existing"

SignInit ==
    /\ GradeIdle
    /\ SanIdle
    /\ OpIdle
    /\ SaveIdle
    /\ uniqueStudentId \in BOOLEAN
    /\ wcUsers \in {{}, {ExistingUser}}
    /\ signPc = [p \in Calls |-> "idle"]
    /\ signResult = [p \in Calls |-> NoResult]

\* line 31: quickSignInSupabase(studentId, name) is called
QuickSignInCall(p) ==
    /\ signPc[p] = "idle"
    /\ signPc' = [signPc EXCEPT ![p] = "find"]
    /\ UNCHANGED <<uniqueStudentId, wcUsers, signResult>>
    /\ UNCHANGED gradeVars
    /\ UNCHANGED sanVars
    /\ UNCHANGED opVars
    /\ UNCHANGED saveVars

\* lines 34-42: the lookup select('*').eq('student_id').single() answers.
\* single() gives the row when exactly one row matches, an error otherwise
\* (none, several); the request itself may fail.  findError is never read:
\* without a row the call goes on to insert.  A lookup that rejects is caught
\* at lines 62-65
QuickSignInFind(p) ==
    /\ signPc[p] = "find"
    /\ \/ /\ Cardinality(wcUsers) = 1
          /\ signResult' = [signResult EXCEPT ![p] =
                 [data |-> CHOOSE r \in wcUsers : TRUE, error |-> FALSE]]
          /\ signPc' = [signPc EXCEPT ![p] = "done"]
       \/ /\ Cardinality(wcUsers) # 1
          /\ signPc' = [signPc EXCEPT ![p] = "insert"]
          /\ UNCHANGED signResult
       \/ /\ Cardinality(wcUsers) = 1
          /\ signPc' = [signPc EXCEPT ![p] = "insert"]
          /\ UNCHANGED signResult
       \/ /\ signResult' = [signResult EXCEPT ![p] = [data |-> "none", error |-> TRUE]]
          /\ signPc' = [signPc EXCEPT ![p] = "done"]
    /\ UNCHANGED <<uniqueStudentId, wcUsers>>
    /\ UNCHANGED gradeVars
    /\ UNCHANGED sanVars
    /\ UNCHANGED opVars
    /\ UNCHANGED saveVars

\* lines 45-61: the insert answers: the new row, or an error (the request
\* fails, a policy refuses it, or a unique student_id is already taken)
QuickSignInInsert(p) ==
    /\ signPc[p] = "insert"
    /\ \/ /\ uniqueStudentId => wcUsers = {}
          /\ wcUsers' = wcUsers \cup {p}
          /\ signResult' = [signResult EXCEPT ![p] = [data |-> p, error |-> FALSE]]
       \/ /\ UNCHANGED wcUsers
          /\ signResult' = [signResult EXCEPT ![p] = [data |-> "none", error |-> TRUE]]
    /\ signPc' = [signPc EXCEPT ![p] = "done"]
    /\ UNCHANGED uniqueStudentId
    /\ UNCHANGED gradeVars
    /\ UNCHANGED sanVars
    /\ UNCHANGED opVars
    /\ UNCHANGED saveVars

SignNext ==
    \E p \in Calls :
        \/ QuickSignInCall(p)
        \/ QuickSignInFind(p)
        \/ QuickSignInInsert(p)

SignSpec == SignInit /\ [][SignNext]_vars

(***************************************************************************)
(* saveAssembledEssayToSupabase, supabaseDataService.ts lines 285-340: two *)
(* calls for one (user, topic).  history holds the records of the (user, *)
(* topic) in the order of created_at; a record is its id, the *)
(* assembled_essay of its user_inputs (named by the call that wrote it) and *)
(* the other keys of its user_inputs. *)
(***************************************************************************)

Record(id, essay, others) == [id |-> id, essay |-> essay, others |-> others]

\* the records of the (user, topic) before the calls: none, one or two,
\* written by the inspiration module
InitialHistories ==
    { <<>>,
      << Record(1, "none", "draft") >>,
      << Record(1, "old", "draft"), Record(2, "none", "notes") >> }

SaveInit ==
    /\ GradeIdle
    /\ SanIdle
    /\ OpIdle
    /\ SignIdle
    /\ history \in InitialHistories
    /\ savePc = [p \in Calls |-> "idle"]
    /\ saveExisting = [p \in Calls |-> NoRecord]
    /\ saveResult = [p \in Calls |-> NoResult]

\* line 285: saveAssembledEssayToSupabase(userId, topic, assembledEssay)
SaveEssayCall(p) ==
    /\ savePc[p] = "idle"
    /\ savePc' = [savePc EXCEPT ![p] = "find"]
    /\ UNCHANGED <<history, saveExisting, saveResult>>
    /\ UNCHANGED gradeVars
    /\ UNCHANGED sanVars
    /\ UNCHANGED opVars
    /\ UNCHANGED signVars

\* lines 292-301: the lookup of the newest record answers; line 301 takes
\* any error for the absence of a record.  A lookup that rejects is caught at
\* lines 336-339
SaveEssayFind(p) ==
    /\ savePc[p] = "find"
    /\ \/ /\ history # <<>>
          /\ saveExisting' = [saveExisting EXCEPT ![p] = history[Len(history)]]
          /\ savePc' = [savePc EXCEPT ![p] = "update"]
          /\ UNCHANGED saveResult
       \/ /\ history = <<>>
          /\ savePc' = [savePc EXCEPT ![p] = "insert"]
          /\ UNCHANGED <<saveExisting, saveResult>>
       \/ /\ history # <<>>
          /\ savePc' = [savePc EXCEPT ![p] = "insert"]
          /\ UNCHANGED <<saveExisting, saveResult>>
       \/ /\ savePc' = [savePc EXCEPT ![p] = "done"]
          /\ saveResult' = [saveResult EXCEPT ![p] = [data |-> "none", error |-> TRUE]]
          /\ UNCHANGED saveExisting
    /\ UNCHANGED history
    /\ UNCHANGED gradeVars
    /\ UNCHANGED sanVars
    /\ UNCHANGED opVars
    /\ UNCHANGED signVars

\* lines 302-317: the insert of a record holding the essay alone answers
SaveEssayInsert(p) ==
    /\ savePc[p] = "insert"
    /\ \/ /\ history' = Append(history, Record(Len(history) + 1, p, "none"))
          /\ saveResult' = [saveResult EXCEPT ![p] = [data |-> "true", error |-> FALSE]]
       \/ /\ UNCHANGED history
          /\ saveResult' = [saveResult EXCEPT ![p] = [data |-> "none", error |-> TRUE]]
    /\ savePc' = [savePc EXCEPT ![p] = "done"]
    /\ UNCHANGED saveExisting
    /\ UNCHANGED gradeVars
    /\ UNCHANGED sanVars
    /\ UNCHANGED opVars
    /\ UNCHANGED signVars

\* lines 318-333: the update of the record found, by its id, with the
\* user_inputs read at the lookup and the new essay, answers
SaveEssayUpdate(p) ==
    /\ savePc[p] = "update"
    /\ \/ /\ history' = [history EXCEPT ![saveExisting[p].id] =
                 Record(saveExisting[p].id, p, saveExisting[p].others)]
          /\ saveResult' = [saveResult EXCEPT ![p] = [data |-> "true", error |-> FALSE]]
       \/ /\ UNCHANGED history
          /\ saveResult' = [saveResult EXCEPT ![p] = [data |-> "none", error |-> TRUE]]
    /\ savePc' = [savePc EXCEPT ![p] = "done"]
    /\ UNCHANGED saveExisting
    /\ UNCHANGED gradeVars
    /\ UNCHANGED sanVars
    /\ UNCHANGED opVars
    /\ UNCHANGED signVars

SaveNext ==
    \E p \in Calls :
        \/ SaveEssayCall(p)
        \/ SaveEssayFind(p)
        \/ SaveEssayInsert(p)
        \/ SaveEssayUpdate(p)

SaveSpec == SaveInit /\ [][SaveNext]_vars

----------------------------------------------------------------------------
(* Score Normalizer: claims C1-C4 *)

Returned == gPc = "returned"

\* the four sub-scores after clamping and rounding, before any bonus
BaseScores == NormalizeScores(step1Data)

WithCritical(n) == [step1Data EXCEPT !.critical = [isArray |-> TRUE, length |-> n]]

InBand(t) == ~t.nan /\ t.v >= PointsToUnits(6) /\ t.v <= PointsToUnits(14)

InRange(x, d) == ~x.nan /\ x.v >= 0 /\ x.v <= max[d] /\ x.v % HalfPoint = 0

IsMissingOrNonNumeric(x) ==
    \/ x.kind \in {"undefined", "null", "object"}
    \/ x.kind = "string" /\ x.str \notin {"", " ", "2", "3.5"}

\* C1: whatever the four sub-score inputs are (negative, above the maximum,
\* non-numeric, missing) and whether or not the bonus runs, every returned
\* sub-score is a number in [0, max] of its dimension and a multiple of 0.5.
C1_SubScoresInRange ==
    Returned => \A d \in Dims : InRange(graded.subScores[d], d)

\* C1, the failing case made explicit: a non-numeric string comes back as NaN
C1_NaNReturned ==
    /\ Returned
    /\ step1Data.hasSubScores
    /\ step1Data.subScores["content"] = String("abc")
    /\ IsNaN(graded.subScores["content"])
    /\ IsNaN(graded.totalScore)

\* C2: the returned totalScore is the sum of the four returned sub-scores,
\* with the bonus and without it, whatever totalScore the model supplied.
C2_TotalIsSum ==
    Returned => graded.totalScore = SubScoreSum(graded.subScores)

\* C2 witness: the model supplied a total, the bonus ran, and the returned
\* total is another number than the supplied one and than the pre-bonus sum
C2_Witness ==
    /\ Returned
    /\ step1Data.totalScore = Number(PointsToUnits(9))
    /\ graded.subScores # BaseScores.subScores
    /\ graded.totalScore # BaseScores.totalScore
    /\ graded.totalScore # Num(PointsToUnits(9))

\* C3: a missing or non-numeric sub-score (absent, null, non-numeric string,
\* object) gives the same returned value for its dimension as the number 0.
C3_MissingAsZero ==
    Returned =>
        \A d \in Dims :
            IsMissingOrNonNumeric(step1Data.subScores[d]) =>
                graded.subScores[d] =
                    GradeScores([step1Data EXCEPT !.subScores[d] = Number(0)]).subScores[d]

\* C4: the bonus is applied exactly when the clamped, rounded total t is in
\* [6,14] and there are at most 2 critical issues; for the same sub-scores the
\* totals with 0 and with 3 critical issues differ by exactly what the bonus
\* added, and with 3 critical issues every sub-score is its clamped, rounded
\* value.
C4_BonusIff ==
    Returned =>
        LET t == BaseScores.totalScore
            r0 == GradeScores(WithCritical(0))
            r3 == GradeScores(WithCritical(3))
            applied == graded.subScores # BaseScores.subScores
            added == [d \in Dims |-> r0.subScores[d].v - r3.subScores[d].v]
            amount == added["content"] + added["organization"]
                      + added["proficiency"] + added["clarity"]
        IN  /\ applied <=> (InBand(t) /\ criticalCount(step1Data) <= 2)
            /\ r3.subScores = BaseScores.subScores
            /\ r3.totalScore = t
            /\ InBand(t) =>
                 /\ \A d \in Dims : added[d] >= 0
                 /\ amount > 0 /\ amount <= PointsToUnits(1)
                 /\ r0.totalScore = Num(r3.totalScore.v + amount)
            /\ ~InBand(t) => r0 = r3

\* C4 witness: both boundaries at once, t = 14 with exactly 2 critical issues
C4_Witness ==
    /\ Returned
    /\ BaseScores.totalScore = Num(PointsToUnits(14))
    /\ step1Data.critical = [isArray |-> TRUE, length |-> 2]
    /\ graded.totalScore = Num(PointsToUnits(15))

\* C4, the lower boundary: t = 6 exactly, and the bonus ran
C4_LowerBoundary ==
    /\ Returned
    /\ BaseScores.totalScore = Num(PointsToUnits(6))
    /\ graded.subScores # BaseScores.subScores

----------------------------------------------------------------------------
(* Response Sanitizer: claims C5-C7 *)

SanDone == sanPc = "done"

IsText(t) == \A i \in 1..Len(t) : t[i] \in Char

\* C5: for every valid JSON string s, cleanJsonResponse(s) returns s
\* unchanged, character for character.
C5_ValidJsonUnchanged ==
    (SanDone /\ JsonValid(rawText)) => sanOut = Return(rawText)

\* C5, the failing case made explicit: a JSON object whose string value holds
\* a code fence is valid JSON and does not come back as it went in
C5_FenceInStringMangled ==
    /\ SanDone
    /\ rawText = DocFenceInString
    /\ JsonValid(rawText)
    /\ sanOut = Return(<<"b">>)
    /\ ~JsonValid(sanOut.value)

\* C6: for every fenced code block (three backticks, optionally tagged json)
\* wrapped around valid JSON, cleanJsonResponse returns exactly the fenced
\* interior, and that result parses as JSON.
C6_FencedInterior ==
    SanDone =>
        \A d \in Docs, w \in {"fenced", "fencedJson"} :
            (JsonValid(d) /\ rawText = Wrap(w, d)) =>
                (sanOut = Return(d) /\ JsonValid(sanOut.value))

\* C6, the example of the specification: the json-tagged block around {"x":1}
\* yields {"x":1}
C6_ExampleHolds ==
    /\ SanDone
    /\ rawText = Wrap("fencedJson", DocX)
    /\ sanOut = Return(DocX)

\* C7: for every input string cleanJsonResponse ends without throwing and
\* with a returned string.  (The call is one step: each loop of the code is a
\* scan bounded by the length of the text.)
C7_SanitizerReturnsString ==
    SanDone => (sanOut.kind = "return" /\ IsText(sanOut.value))

\* C7 witness: texts with no brace or bracket, with an unbalanced fence, and
\* the empty string are among the inputs; here the unbalanced fence, whose
\* content does not parse and is returned as repaired
C7_Witness ==
    /\ SanDone
    /\ rawText = Wrap("openFence", SubSeq(DocHello, 1, 12))
    /\ repairCalled
    /\ sanOut.kind = "return"
    /\ JsonValid(sanOut.value)

\* C7, the other inputs the claim names: the empty string, and a text with no
\* brace or bracket that does not parse
C7_EmptyInput == SanDone /\ rawText = <<>> /\ sanOut = Return(<<>>)
C7_NoBraceInput == SanDone /\ rawText = <<"a", ":">> /\ sanOut = Return(<<"a", ":">>)

----------------------------------------------------------------------------
(* Truncation Repairer: claims C8-C10.  The repairer is private to the     *)
(* module; its inputs are the texts cleanJsonResponse hands it.            *)

RepairDone == SanDone /\ repairCalled

RECURSIVE LexState(_, _, _)
\* where a JSON lexer stands after reading t from position i: inside a string
\* or not, the open brackets, and where the current string began
LexState(t, i, st) ==
    IF i > Len(t) THEN st
    ELSE LET ch == t[i]
         IN  IF st.inStr
             THEN IF st.esc THEN LexState(t, i + 1, [st EXCEPT !.esc = FALSE])
                  ELSE IF ch = "\\" THEN LexState(t, i + 1, [st EXCEPT !.esc = TRUE])
                  ELSE IF ch = "\"" THEN LexState(t, i + 1, [st EXCEPT !.inStr = FALSE])
                  ELSE LexState(t, i + 1, st)
             ELSE IF ch = "\"" THEN LexState(t, i + 1, [st EXCEPT !.inStr = TRUE, !.strStart = i])
                  ELSE IF ch \in {"{", "["} THEN LexState(t, i + 1, [st EXCEPT !.open = Append(@, ch)])
                  ELSE IF ch \in {"}", "]"} /\ Len(st.open) > 0
                       THEN LexState(t, i + 1, [st EXCEPT !.open = SubSeq(@, 1, Len(@) - 1)])
                  ELSE LexState(t, i + 1, st)

LexEnd(t) == LexState(t, 1, [inStr |-> FALSE, esc |-> FALSE, open |-> <<>>, strStart |-> 0])

ObjectDocs == { d \in Docs : d[1] = "{" }
IsCutOf(t, d) == Len(t) < Len(d) /\ t = SubSeq(d, 1, Len(t))

\* t is a JSON object cut off inside a string literal that is a member's
\* value, only the object itself still open
CutInStringValue(t) ==
    /\ \E d \in ObjectDocs : JsonValid(d) /\ IsCutOf(t, d)
    /\ LET st == LexEnd(t)
       IN  /\ st.inStr
           /\ st.open = <<"{">>
           /\ LET b == SkipSpaceBack(t, st.strStart - 1) IN b >= 1 /\ t[b] = ":"

\* C8: when the repairer's input is a JSON object cut off inside a string
\* value with the object still open, the output is the input with the string
\* closed and then the object closed, and it parses as JSON.
C8_CutStringClosed ==
    (RepairDone /\ CutInStringValue(sanCleaned)) =>
        /\ sanOut = Return(sanCleaned \o <<"\"", "}">>)
        /\ JsonValid(sanOut.value)

\* C8, the example of the specification: {"a": "hello becomes {"a": "hello"}
C8_ExampleHolds ==
    /\ RepairDone
    /\ sanCleaned = SubSeq(DocHello, 1, 12)
    /\ sanOut = Return(DocHello)

\* C8, the failing case made explicit: the cut falls right after a backslash
C8_CutAfterBackslash ==
    /\ RepairDone
    /\ sanCleaned = SubSeq(DocEscape, 1, 10)
    /\ CutInStringValue(sanCleaned)
    /\ sanOut = Return(sanCleaned \o <<"\"", "}">>)
    /\ ~JsonValid(sanOut.value)

\* t ends with a comma (and white space) inside an unclosed array that is
\* directly inside the unclosed top-level object
CutAfterCommaInArray(t) ==
    /\ \E d \in ObjectDocs : JsonValid(d) /\ IsCutOf(t, d)
    /\ LET st == LexEnd(t)
           e == SkipSpaceBack(t, Len(t))
       IN  /\ ~st.inStr
           /\ st.open = <<"{", "[">>
           /\ e >= 1 /\ t[e] = ","

\* C9: when the repairer's input ends with a trailing comma inside an unclosed
\* array nested in an unclosed object, the output is the input without that
\* comma, with the array and then the object closed, and it parses as JSON.
C9_TrailingCommaDropped ==
    (RepairDone /\ CutAfterCommaInArray(sanCleaned)) =>
        /\ sanOut = Return(SubSeq(sanCleaned, 1, SkipSpaceBack(sanCleaned, Len(sanCleaned)) - 1)
                           \o <<"]", "}">>)
        /\ JsonValid(sanOut.value)

\* C9, the example of the specification: {"a": 1, "b": [1, 2, becomes
\* {"a": 1, "b": [1, 2]}
C9_ExampleHolds ==
    /\ RepairDone
    /\ sanCleaned = SubSeq(DocNested, 1, 20)
    /\ sanOut = Return(SubSeq(DocNested, 1, 19) \o <<"]", "}">>)
    /\ JsonValid(sanOut.value)

\* C9, the failing case made explicit: the element before the comma is a
\* string that ends with an escaped backslash
C9_EscapedBackslashElement ==
    /\ RepairDone
    /\ sanCleaned = SubSeq(DocBackslash, 1, 12)
    /\ CutAfterCommaInArray(sanCleaned)
    /\ sanOut = Return(sanCleaned \o <<"\"", "]", "}">>)
    /\ ~JsonValid(sanOut.value)

\* C10: for every input the repairer ends with a returned string and raises
\* no error: whenever cleanJsonResponse went through the repairer, its outcome
\* (line 192 returns the repairer's result as it is) is a returned text, which
\* may still not parse.
C10_RepairerReturnsString ==
    RepairDone => (sanOut.kind = "return" /\ IsText(sanOut.value))

\* C10 witness: a repair that did not succeed: the returned text does not parse
C10_Witness ==
    /\ RepairDone
    /\ sanOut.kind = "return"
    /\ ~JsonValid(sanOut.value)

----------------------------------------------------------------------------
(* Exported operations: claims C11-C12 *)

\* callAI returned a text to the operation, which has parsed it, and JSON.parse
\* rejected it
Unparseable == op \in Ops /\ respJson.kind = "return" /\ ~JsonValid(respJson.value)

\* C11: in every exported operation that parses a model response, step 1 and
\* step 2 of gradeEssay included, a sanitized and repaired text that does not
\* parse as JSON ends the request with an error and no result is returned.
C11_ParseFailureIsError ==
    Unparseable => opPc = "threw"

\* C11 as the code has it: an unparseable text ends the request with an error
\* and no result in every operation that parses through safeJsonParse and in
\* step 1 of gradeEssay; in step 2 of gradeEssay it is replaced by the empty
\* retraining and gradeEssay returns the step-1 result.
C11_ParseFailureHandled ==
    Unparseable =>
        IF op = "gradeEssay" /\ invocations = 2
        THEN /\ opPc = "returned"
             /\ gPc = "returned"
             /\ retraining = "empty"
             /\ graded = GradeScores(step1Data)
        ELSE /\ opPc = "threw"
             /\ failure = "parse"
             /\ retraining = "none"
             /\ graded = NoGrade

\* C11 witness: gradeEssay returned after its step-2 text did not parse
C11_Witness ==
    /\ Unparseable
    /\ op = "gradeEssay"
    /\ invocations = 2
    /\ opPc = "returned"
    /\ retraining = "empty"

\* C11, the other two cases: safeJsonParse threw; step 1 of gradeEssay threw
C11_SafeJsonParseThrew == Unparseable /\ op = "validateIdea" /\ opPc = "threw"
C11_Step1Threw == Unparseable /\ op = "gradeEssay" /\ invocations = 1 /\ gPc = "threw"

\* C12: no retry.  Each callAI invocation issues at most one request (an
\* operation makes one invocation, gradeEssay at most two), and once a request
\* failed, a response was empty or a text did not parse, the operation is over:
\* it issues nothing more.
C12_NoRetry ==
    /\ requests <= invocations
    /\ invocations <= (IF op = "gradeEssay" THEN 2 ELSE 1)
    /\ failure # "none" => opPc \in {"threw", "returned"}

\* C12 witness: the second request of gradeEssay failed after both
\* invocations issued one request each, and gradeEssay rejected
C12_Witness ==
    /\ op = "gradeEssay"
    /\ invocations = 2
    /\ requests = 2
    /\ failure = "request"
    /\ opPc = "threw"

\* C12, the other failures: empty content; an unparseable text
C12_EmptyEnds == failure = "empty" /\ requests = 1 /\ opPc = "threw"
C12_ParseEnds == failure = "parse" /\ requests = 1 /\ opPc = "threw"

----------------------------------------------------------------------------
(* Score Normalizer: claims C13-C19 *)

RawScores == step1Data.subScores
CritCount == criticalCount(step1Data)
AllNumbers == step1Data.hasSubScores /\ \A d \in Dims : RawScores[d].kind = "number"
Raised(d, r) == [step1Data EXCEPT !.subScores[d] = r]
NumberInputs(d) == { r \in GridScores(d) \cup SpecialScores(d) : r.kind = "number" }

\* the sub-scores of a grading, content first, in points
Points(c, o, p, cl) ==
    [content |-> Num(c), organization |-> Num(o), proficiency |-> Num(p), clarity |-> Num(cl)]
RawPoints(c, o, p, cl) ==
    [content |-> Number(c), organization |-> Number(o), proficiency |-> Number(p),
     clarity |-> Number(cl)]

\* what the calibration added to dimension d, in eighths of a point
Added(d) == graded.subScores[d].v - BaseScores.subScores[d].v
Received(d) == graded.subScores[d] # BaseScores.subScores[d]
Headroom(d) == max[d] - BaseScores.subScores[d].v

\* C13: the Normalizer is monotone in the raw scores: with the critical-issue
\* count held fixed, raising one raw sub-score and lowering none never gives a
\* lower final totalScore.
C13_Monotone ==
    (Returned /\ AllNumbers) =>
        \A d \in Dims : \A r \in NumberInputs(d) :
            r.num >= RawScores[d].num =>
                JsGe(GradeScores(Raised(d, r)).totalScore, graded.totalScore)

\* C13, the failing case made explicit: 4, 3, 4, 3 is graded 15, and with
\* proficiency raised to 4.5 it is graded 14.5
C13_BandEdgeDrop ==
    /\ Returned
    /\ step1Data.hasSubScores
    /\ RawScores = RawPoints(PointsToUnits(4), PointsToUnits(3), PointsToUnits(4), PointsToUnits(3))
    /\ CritCount = 0
    /\ graded.totalScore = Num(PointsToUnits(15))
    /\ GradeScores(Raised("proficiency", Number(PointsToUnits(4) + HalfPoint))).totalScore
         = Num(PointsToUnits(14) + HalfPoint)

\* C14: in one invocation the adjustment raises no single sub-score by more
\* than 0.5 above its clamped, rounded value.
C14_AtMostHalfPerDimension ==
    Returned => \A d \in Dims : Added(d) <= HalfPoint

\* C14 as the code has it: the adjustment raises a sub-score by one increment
\* of 0.5, or by two (1.0) when that dimension is the only one below its
\* maximum; it lowers none.
C14_HalfPointIncrements ==
    Returned =>
        \A d \in Dims :
            /\ Added(d) \in {0, HalfPoint, 2 * HalfPoint}
            /\ Added(d) = 2 * HalfPoint => \A e \in Dims \ {d} : Headroom(e) = 0

\* C14 witness: proficiency, alone below its maximum, went from 4 to 5
C14_Witness ==
    /\ Returned
    /\ BaseScores.subScores = Points(PointsToUnits(4), PointsToUnits(3), PointsToUnits(4), PointsToUnits(3))
    /\ Added("proficiency") = 2 * HalfPoint
    /\ graded.subScores["proficiency"] = Num(PointsToUnits(5))

\* C15: normalisation only enforces the bounds and the sum and never raises a
\* score: every returned sub-score is the half-point rounding of its clamped
\* input.
C15_NeverRaises ==
    Returned => \A d \in Dims : graded.subScores[d] = NormalizeSubScore(RawScores[d], d)

\* C15, the failing case made explicit: 2, 2, 2, 2 comes back as 2.5, 2, 2.5, 2
C15_Raised ==
    /\ Returned
    /\ step1Data.hasSubScores
    /\ RawScores = RawPoints(PointsToUnits(2), PointsToUnits(2), PointsToUnits(2), PointsToUnits(2))
    /\ CritCount = 0
    /\ graded.subScores = Points(PointsToUnits(2) + HalfPoint, PointsToUnits(2),
                                 PointsToUnits(2) + HalfPoint, PointsToUnits(2))

\* C16: the bonus is applied at most once per invocation: the returned total
\* is at most 1.0 above the clamped, rounded total, the sub-scores together
\* gained at most 1.0, also when the adjusted total is still in [6,14].
C16_BonusOnce ==
    Returned =>
        IF IsNaN(BaseScores.totalScore) THEN graded = BaseScores
        ELSE /\ graded.totalScore.v - BaseScores.totalScore.v \in 0..PointsToUnits(1)
             /\ Added("content") + Added("organization") + Added("proficiency")
                  + Added("clarity") <= PointsToUnits(1)

\* C16 witness: the total went from 8 to 9, which is in [6,14] again
C16_Witness ==
    /\ Returned
    /\ CritCount <= 2
    /\ BaseScores.totalScore = Num(PointsToUnits(8))
    /\ graded.totalScore = Num(PointsToUnits(9))
    /\ InBand(graded.totalScore)

\* C17: whenever the bonus condition holds (clamped, rounded total in [6,14],
\* at most 2 critical issues) the returned total is that total plus exactly
\* 1.0, never a part of it, and so at most 15.
C17_FullBonus ==
    (Returned /\ InBand(BaseScores.totalScore) /\ CritCount <= 2) =>
        /\ graded.totalScore = Num(BaseScores.totalScore.v + PointsToUnits(1))
        /\ graded.totalScore.v <= PointsToUnits(15)

\* C17 witness: one dimension alone has headroom, and the whole point went
\* to it: 4, 3, 4, 3 with 1 critical issue is graded 15
C17_Witness ==
    /\ Returned
    /\ BaseScores.subScores = Points(PointsToUnits(4), PointsToUnits(3), PointsToUnits(4), PointsToUnits(3))
    /\ CritCount = 1
    /\ graded.totalScore = Num(PointsToUnits(15))

\* C17, two dimensions with 0.5 headroom each take the whole point
C17_TwoHalves ==
    /\ Returned
    /\ BaseScores.subScores = Points(PointsToUnits(4), PointsToUnits(3) - HalfPoint,
                                     PointsToUnits(5) - HalfPoint, PointsToUnits(3))
    /\ graded.totalScore = Num(PointsToUnits(15))

\* a precedes b in the order of the bonus: more headroom, or the same headroom
\* and a lower score
Precedes(a, b) ==
    \/ Headroom(a) > Headroom(b)
    \/ Headroom(a) = Headroom(b) /\ BaseScores.subScores[a].v < BaseScores.subScores[b].v

\* C18: the bonus goes to the dimensions in the order of greatest headroom
\* first, ties to the lowest score: a dimension received bonus only if every
\* dimension before it in that order received bonus or had no headroom, and
\* no dimension is above its maximum.
C18_BonusOrder ==
    (Returned /\ graded.subScores # BaseScores.subScores) =>
        \A b \in Dims :
            /\ graded.subScores[b].v <= max[b]
            /\ Received(b) =>
                 \A a \in Dims : Precedes(a, b) => (Received(a) \/ Headroom(a) = 0)

\* C18 witness: three dimensions with 1.0 headroom; organization (2) and
\* content (3) received the bonus, proficiency (4) did not
C18_Witness ==
    /\ Returned
    /\ BaseScores.subScores = Points(PointsToUnits(3), PointsToUnits(2), PointsToUnits(4), PointsToUnits(3))
    /\ graded.subScores = Points(PointsToUnits(3) + HalfPoint, PointsToUnits(2) + HalfPoint,
                                 PointsToUnits(4), PointsToUnits(3))

\* C18, headroom decides before the score does
C18_HeadroomFirst ==
    /\ Returned
    /\ BaseScores.subScores = Points(PointsToUnits(2), PointsToUnits(2), PointsToUnits(4) + HalfPoint, PointsToUnits(3))
    /\ Received("content") /\ Received("organization") /\ ~Received("proficiency")

\* x clamped to [0, hi]
ClampedTo(x, hi) == IF x < 0 THEN 0 ELSE IF x > hi THEN hi ELSE x

\* m is the multiple of 0.5 nearest to c, the upper one when c is midway
NearestHalfUp(c, m) ==
    /\ m % HalfPoint = 0
    /\ 2 * (m - c) <= HalfPoint
    /\ 2 * (c - m) < HalfPoint

NoBonus == CritCount > 2 \/ ~InBand(BaseScores.totalScore)

\* C19: when no bonus is applied, each returned sub-score is its input
\* clamped to the range of the dimension and then rounded to the nearest
\* multiple of 0.5, a value midway (.25, .75) going up.  Inputs are the
\* numbers Number(x || 0) yields; the non-numeric ones are the matter of C3.
C19_ClampThenRound ==
    (Returned /\ NoBonus) =>
        \A d \in Dims :
            LET x == ToNumber(OrZero(RawScores[d]))
            IN  ~IsNaN(x) =>
                  /\ ~IsNaN(graded.subScores[d])
                  /\ NearestHalfUp(ClampedTo(x.v, max[d]), graded.subScores[d].v)

\* C19 witness: .25 became .5, 3.875 was clamped to 3, -1 to 0, and .75
\* became 1, with 3 critical issues
C19_Witness ==
    /\ Returned
    /\ CritCount = 3
    /\ step1Data.hasSubScores
    /\ RawScores = RawPoints(HalfPoint \div 2, max["organization"] + PointsToUnits(1) - 1,
                             0 - PointsToUnits(1), HalfPoint + HalfPoint \div 2)
    /\ graded.subScores = Points(HalfPoint, PointsToUnits(3), 0, PointsToUnits(1))

----------------------------------------------------------------------------
(* Response Sanitizer: claim C20 *)

\* C20: after fence extraction and prose stripping, a text that parses as
\* JSON is returned as it is and the repairer is not called; any other text
\* goes to the repairer, whose output is returned as it is, parseable or not.
C20_ParsedOrRepaired ==
    SanDone =>
        IF JsonValid(sanCleaned)
        THEN ~repairCalled /\ sanOut = Return(sanCleaned)
        ELSE repairCalled /\ sanOut = Return(RepairText(sanCleaned))

\* C20 witness: the repairer's output was returned although it does not parse
C20_Witness ==
    /\ SanDone
    /\ repairCalled
    /\ sanOut = Return(RepairText(sanCleaned))
    /\ sanOut.value # sanCleaned
    /\ ~JsonValid(sanOut.value)

\* C20, the first branch: the stripped text, not the raw one, came back
C20_StrippedVerbatim ==
    /\ SanDone
    /\ ~repairCalled
    /\ sanCleaned # rawText
    /\ sanOut = Return(sanCleaned)

----------------------------------------------------------------------------
(* Response Sanitizer: claims C21-C22 *)

Least(S) == CHOOSE x \in S : \A y \in S : x <= y
Greatest(S) == CHOOSE x \in S : \A y \in S : x >= y

\* the fence markers of t, and the first fenced block: from the first marker,
\* past its optional json tag, to the next marker
FencePositions(t) == { i \in 1..Len(t) : FenceAt(t, i) }
InteriorFrom(t) ==
    LET open == Least(FencePositions(t))
    IN  IF StartsWithAt(t, JsonTag, open + 3) THEN open + 7 ELSE open + 3
ClosingFences(t) == { k \in FencePositions(t) : k >= InteriorFrom(t) }
HasFencedBlock(t) == FencePositions(t) # {} /\ ClosingFences(t) # {}
FirstBlockInterior(t) == SubSeq(t, InteriorFrom(t), Least(ClosingFences(t)) - 1)

\* what the fence step is to leave of the raw text
AfterFenceStep(text) ==
    IF HasFencedBlock(Trim(text)) THEN Trim(FirstBlockInterior(Trim(text))) ELSE Trim(text)

\* C21: a text with one or more fenced code blocks is replaced by the
\* (trimmed) interior of the first block, all text outside it and every later
\* block being dropped; a text with none stays the trimmed text.  The later
\* steps work on that text.
C21_FirstBlockOnly ==
    SanDone =>
        /\ StripCodeBlock(rawText) = AfterFenceStep(rawText)
        /\ sanCleaned = StripTrailingText(StripLeadingText(AfterFenceStep(rawText)))

\* C21 witness: prose before, two blocks, prose after: the first block only
C21_Witness ==
    /\ SanDone
    /\ rawText = Wrap("twoBlocks", DocX)
    /\ Cardinality(FencePositions(rawText)) = 4
    /\ sanCleaned = DocX
    /\ sanOut = Return(DocX)

\* C21, no block: a single marker is left in place
C21_NoBlock ==
    /\ SanDone
    /\ rawText = Wrap("openFence", <<"1">>)
    /\ StripCodeBlock(rawText) = rawText

Openers(t) == { i \in 1..Len(t) : t[i] \in {"{", "["} }
ClosersOf(t) == { i \in 1..Len(t) : t[i] \in {"}", "]"} }

\* everything before the first { or [ dropped, unless t begins with one or
\* holds none
LeadStripped(t) ==
    IF Openers(t) = {} \/ 1 \in Openers(t) THEN t
    ELSE SubSeq(t, Least(Openers(t)), Len(t))

\* everything after the last } or ] dropped, unless t ends with one or holds
\* none
TrailStripped(t) ==
    IF ClosersOf(t) = {} \/ Len(t) \in ClosersOf(t) THEN t
    ELSE SubSeq(t, 1, Greatest(ClosersOf(t)))

StartsWithOpener(t) == Len(t) > 0 /\ t[1] \in {"{", "["}

\* C22: the text before the first { or [ and then the text after the last }
\* or ] are dropped, a step leaving the text unchanged when it has no such
\* character; hence the text handed to the parser starts with { or [ whenever
\* the input of the Sanitizer contains one.
C22_ProseStripped ==
    SanDone =>
        /\ sanCleaned = TrailStripped(LeadStripped(StripCodeBlock(rawText)))
        /\ Openers(rawText) # {} => StartsWithOpener(sanCleaned)

\* C22 as the code has it: the same two steps; the text handed to the parser
\* starts with { or [ whenever the text left by the fence step contains one.
C22_ProseStrippedAfterFence ==
    SanDone =>
        /\ sanCleaned = TrailStripped(LeadStripped(StripCodeBlock(rawText)))
        /\ Openers(StripCodeBlock(rawText)) # {} => StartsWithOpener(sanCleaned)

\* C22 witness: prose on both sides of a document was dropped
C22_Witness ==
    /\ SanDone
    /\ rawText = Wrap("prose", DocArray)
    /\ StripCodeBlock(rawText) = ProseBefore \o DocArray \o ProseAfter
    /\ sanCleaned = DocArray

\* C22, the case the original misses: the only [ of the input is in a second
\* block, which the fence step dropped
C22_OpenerOutsideBlock ==
    /\ SanDone
    /\ rawText = Wrap("twoBlocks", DocNumber)
    /\ Openers(rawText) # {}
    /\ sanCleaned = DocNumber

\* C22, no { or [ and no } or ] at all: both steps leave the text as it is
C22_NothingToStrip ==
    /\ SanDone
    /\ rawText = Wrap("prose", DocNumber)
    /\ sanCleaned = rawText

----------------------------------------------------------------------------
(* Truncation Repairer: claims C23-C26 *)

\* t ends, from the comma at position i on, with a comma, a quoted key, a
\* colon and then nothing or an unterminated string; the comma stands outside
\* every string literal
DanglingTail(t, i) ==
    /\ i \in 1..Len(t)
    /\ DanglingAt(t, i)
    /\ ~LexEnd(SubSeq(t, 1, i - 1)).inStr

OnlyClosers(t, from) == \A k \in from..Len(t) : t[k] \in {"}", "]"}

\* C23: when the repairer's input ends with a comma, a quoted key, a colon
\* and nothing or a partial string value, the output is the input up to that
\* comma, followed by closing brackets only: neither the dangling key nor the
\* partial value is in it.
C23_DanglingPairDropped ==
    RepairDone =>
        \A i \in 1..Len(sanCleaned) :
            DanglingTail(sanCleaned, i) =>
                /\ Len(sanOut.value) >= i - 1
                /\ SubSeq(sanOut.value, 1, i - 1) = SubSeq(sanCleaned, 1, i - 1)
                /\ OnlyClosers(sanOut.value, i)

\* C23, the case that holds: {"a": 1, "b": becomes {"a": 1}
C23_DanglingKeyDropped ==
    /\ RepairDone
    /\ sanCleaned = SubSeq(DocTwoMembers, 1, 13)
    /\ DanglingTail(sanCleaned, 8)
    /\ sanOut = Return(SubSeq(DocTwoMembers, 1, 7) \o <<"}">>)

\* C23, the failing case made explicit: {"a": 1, "b": "x comes back as
\* {"a": 1, "b": "x"}, the key and the partial value kept
C23_PartialValueKept ==
    /\ RepairDone
    /\ sanCleaned = SubSeq(DocTwoMembers, 1, 16)
    /\ DanglingTail(sanCleaned, 8)
    /\ sanOut = Return(DocTwoMembers)

\* C25: the two scans agree on the string-literal state: after step 1 has
\* closed an open string, the bracket scan of step 3 does not end inside a
\* string literal, so no closer is appended inside an open string; also for
\* inputs with escapes, such as an escaped backslash right before a quote.
C25_ScansAgree ==
    RepairDone => ~InStrAfterScan(RepairedBeforeClosing(sanCleaned), 1, FALSE, FALSE)

\* C25, the failing case made explicit: in {"a": ["\\", the step-1 scan takes
\* the quote that closes "\\" for an escaped one and appends a quote, which
\* opens a string for the step-3 scan; ] and } are appended inside it
C25_EscapedBackslashBeforeQuote ==
    /\ RepairDone
    /\ sanCleaned = SubSeq(DocBackslash, 1, 12)
    /\ ~LexEnd(sanCleaned).inStr
    /\ QuoteScan(sanCleaned, 1, FALSE, "")
    /\ InStrAfterScan(RepairedBeforeClosing(sanCleaned), 1, FALSE, FALSE)
    /\ sanOut = Return(sanCleaned \o <<"\"", "]", "}">>)

Reverse(q) == [k \in 1..Len(q) |-> q[Len(q) + 1 - k]]

\* C24: the repairer closes every unclosed structure: what its last step
\* appends is the closers of the { and [ still open outside string literals
\* at the end of the trimmed text, last opened first, and a second scan of
\* the output, done the same way, finds no structure open.
C24_AllClosed ==
    RepairDone =>
        LET trimmed == RepairedBeforeClosing(sanCleaned)
        IN  /\ sanOut.value = trimmed \o Reverse(CloserStack(trimmed, 1, <<>>, FALSE, FALSE))
            /\ CloserStack(sanOut.value, 1, <<>>, FALSE, FALSE) = <<>>

\* C24, a case that holds: {"a": 1, "b": [1, 2, gets ] and then }
C24_NestedClosed ==
    /\ RepairDone
    /\ sanCleaned = SubSeq(DocNested, 1, 20)
    /\ sanOut = Return(SubSeq(DocNested, 1, 19) \o <<"]", "}">>)
    /\ CloserStack(sanOut.value, 1, <<>>, FALSE, FALSE) = <<>>

\* C24, the failing case made explicit: in {"a": "he\ the appended quote is
\* escaped, the step-3 scan ends inside the string, and the } appended there
\* closes nothing: the second scan still finds the object open
C24_CloserInsideString ==
    /\ RepairDone
    /\ sanCleaned = SubSeq(DocEscape, 1, 10)
    /\ sanOut = Return(sanCleaned \o <<"\"", "}">>)
    /\ CloserStack(sanOut.value, 1, <<>>, FALSE, FALSE) = <<"}">>

\* C26: the repairer recovers nothing and alters nothing it keeps: its output
\* is a prefix of its input followed only by double quotes, } and ].
C26_PrefixPlusClosers ==
    RepairDone =>
        \E n \in 0..Len(sanCleaned) :
            /\ n <= Len(sanOut.value)
            /\ SubSeq(sanOut.value, 1, n) = SubSeq(sanCleaned, 1, n)
            /\ \A k \in (n + 1)..Len(sanOut.value) : sanOut.value[k] \in {"\"", "}", "]"}

\* C26 witness: [1, {"b": "x was kept whole and got a quote, } and ]
C26_Witness ==
    /\ RepairDone
    /\ sanCleaned = SubSeq(DocArray, 1, 12)
    /\ sanOut = Return(sanCleaned \o <<"\"", "}", "]">>)

\* C26, a repair that drops the end of its input: [1, loses its comma
C26_TailDropped ==
    /\ RepairDone
    /\ sanCleaned = SubSeq(DocArray, 1, 3)
    /\ sanOut = Return(<<"[", "1", "]">>)

(***************************************************************************)
(* callAI and the two steps of gradeEssay: claims C27-C28 *)
(***************************************************************************)

\* callAI has returned a string
CallAIReturned == respJson.kind = "return"

\* C27 as stated: in every configuration of callAI, with or without a
\* response schema, the string callAI returns is cleanJsonResponse of the raw
\* response text
C27_AlwaysSanitized ==
    CallAIReturned => respJson = cleanJsonResponse(respText)

\* C27 amended: the string callAI returns is cleanJsonResponse of the raw
\* response text whenever the call went to the OpenAI-compatible endpoint or
\* passed a response schema, which every exported operation does; a google
\* call without a schema returns the raw text unchanged
C27_SanitizedWithSchema ==
    CallAIReturned =>
        /\ op \in Ops => responseSchema
        /\ IF op = "callAI" /\ ~responseSchema /\ ~UsesOpenAICompatible(config)
           THEN respJson = Return(respText)
           ELSE respJson = cleanJsonResponse(respText)

\* a google call with a schema returned a text the sanitizer had changed
C27_Witness ==
    /\ CallAIReturned
    /\ ~UsesOpenAICompatible(config)
    /\ responseSchema
    /\ respJson = cleanJsonResponse(respText)
    /\ respJson.value # respText

\* a google call without a schema returned a fenced text with its fences
C27_RawReturned ==
    /\ CallAIReturned
    /\ op = "callAI"
    /\ ~responseSchema
    /\ respText = Wrap("fencedJson", DocX)
    /\ respJson = Return(respText)
    /\ cleanJsonResponse(respText) = Return(DocX)

\* gradeEssay made its step-2 call, which it does after step 1 only
Step2Called == op = "gradeEssay" /\ invocations = 2

\* step 2 has not answered with a text: respJson is still the step-1 string
Step2Unanswered ==
    opPc = "awaitResponse" \/ failure \in {"apiKeyMissing", "request", "empty"}

\* the step-1 string parsed to a value whose fields can be assigned
Step1Parsed ==
    /\ respJson.kind = "return"
    /\ JsonValid(respJson.value)
    /\ JsonKind(respJson.value) \in {"object", "array"}

\* gradeEssay has ended
GradeEnded == opPc \in {"threw", "returned"}

\* C28: once step 1 has succeeded, gradeEssay returns the step-1 result
\* whatever happens to step 2, with the empty retraining when step 2 failed
\* by an unparseable response or by a failed or empty model call; and step 2
\* is called only after step 1 has parsed
C28_Step2NeverBlocks ==
    /\ Step2Called /\ Step2Unanswered => Step1Parsed
    /\ Step2Called /\ GradeEnded =>
           /\ opPc = "returned"
           /\ gPc = "returned"
           /\ failure # "none" => retraining = "empty"

\* the part of C28 that holds: step 2 is called only after step 1 has
\* parsed, and an unparseable step-2 response gives the step-1 result with
\* the empty retraining
C28_UnparseableFallsBack ==
    /\ Step2Called /\ Step2Unanswered => Step1Parsed
    /\ Step2Called => graded = GradeScores(step1Data)
    /\ Step2Called /\ failure = "parse" =>
           opPc = "returned" /\ retraining = "empty"
    /\ op = "gradeEssay" /\ invocations < 2 => retraining = "none" \/ opPc # "returned"

\* step 2 answered with a text that does not parse and gradeEssay returned
C28_Step2ParseFailed ==
    /\ Step2Called
    /\ opPc = "returned"
    /\ failure = "parse"
    /\ retraining = "empty"

\* step 1 succeeded, the step-2 request failed and gradeEssay rejected
C28_Step2RequestBlocks ==
    /\ Step2Called
    /\ Step1Parsed
    /\ opPc = "threw"
    /\ failure = "request"

\* step 1 succeeded, the step-2 response was empty and gradeEssay rejected
C28_Step2EmptyBlocks ==
    /\ Step2Called
    /\ Step1Parsed
    /\ opPc = "threw"
    /\ failure = "empty"

(***************************************************************************)
(* quickSignInSupabase: claim C29 *)
(***************************************************************************)

\* the rows the calls inserted
InsertedUsers == wcUsers \ {ExistingUser}

\* the call has returned
SignedIn(p) == signPc[p] = "done"

\* C29: a call for a student_id that already has a row returns that row and
\* inserts nothing, and after any interleaving of concurrent calls, lookup
\* errors included, at most one row has been inserted for the student_id
C29_FindOrCreate ==
    /\ \A p \in Calls :
         SignedIn(p) /\ ExistingUser \in wcUsers =>
             /\ signResult[p] = [data |-> ExistingUser, error |-> FALSE]
             /\ p \notin wcUsers
    /\ Cardinality(InsertedUsers) <= 1

\* the second half of C29 alone: at most one row inserted
C29_AtMostOneInserted == Cardinality(InsertedUsers) <= 1

\* the first half of C29 where student_id is unique: the row of an existing
\* student is returned
C29_ExistingReturnedWhenUnique ==
    \A p \in Calls :
        uniqueStudentId /\ SignedIn(p) /\ ExistingUser \in wcUsers =>
            signResult[p] = [data |-> ExistingUser, error |-> FALSE]

\* what holds of C29: a call that returned without error returned a row of
\* the table, and a call that returned the existing row inserted nothing
C29_ReturnsARow ==
    \A p \in Calls :
        SignedIn(p) /\ ~signResult[p].error =>
            /\ signResult[p].data \in wcUsers
            /\ signResult[p].data = ExistingUser => p \notin wcUsers

\* both calls found no row and both inserted one
C29_TwoRowsInserted ==
    /\ ExistingUser \notin wcUsers
    /\ \A p \in Calls : SignedIn(p) /\ signResult[p] = [data |-> p, error |-> FALSE]
    /\ InsertedUsers = Calls

\* the lookup of an existing student failed and a second row was inserted
C29_ExistingDuplicated ==
    /\ wcUsers = {ExistingUser, "first"}
    /\ signPc = [p \in Calls |-> IF p = "first" THEN "done" ELSE "idle"]

\* student_id is unique, the lookup of an existing student failed and the
\* call returned the error of the insert
C29_ExistingNotReturned ==
    /\ uniqueStudentId
    /\ wcUsers = {ExistingUser}
    /\ SignedIn("first")
    /\ signResult["first"].error

(***************************************************************************)
(* saveAssembledEssayToSupabase: claim C30 *)
(***************************************************************************)

\* the positions of history that the step changes
ChangedRecords == { i \in 1..Len(history) : history'[i] # history[i] }

\* C30: a record is inserted only when the (user, topic) has none; otherwise
\* only the newest record is changed, its assembled_essay set and every
\* other key of its user_inputs kept; no other record changes.  In every
\* step of every interleaving of two calls
C30_InsertOrUpdateNewest ==
    [][ /\ Len(history') >= Len(history)
        /\ Len(history') > Len(history) => history = <<>>
        /\ \A i \in ChangedRecords :
              /\ i = Len(history)
              /\ history'[i].id = history[i].id
              /\ history'[i].others = history[i].others
              /\ history'[i].essay \in Calls ]_vars

\* what holds of C30: a step changes at most one record, keeps its id and
\* the other keys of its user_inputs, and sets its essay; a record is never
\* removed
C30_OtherKeysKept ==
    [][ /\ Len(history') >= Len(history)
        /\ Cardinality(ChangedRecords) <= 1
        /\ \A i \in ChangedRecords :
              /\ history'[i].id = history[i].id
              /\ history'[i].others = history[i].others
              /\ history'[i].essay \in Calls ]_vars

\* a record existed, the lookup failed and a second record was inserted
C30_InsertedBesideExisting ==
    /\ Len(history) = 2
    /\ history[1] = Record(1, "none", "draft")
    /\ history[2] = Record(2, "first", "none")
    /\ savePc["second"] = "idle"

\* no record existed and each of the two calls inserted one
C30_TwoInserted ==
    /\ Len(history) = 2
    /\ { history[i].essay : i \in 1..2 } = Calls
    /\ \A i \in 1..2 : history[i].others = "none"

\* a call updated the record it had found after a newer one was inserted
C30_StaleUpdated ==
    /\ Len(history) = 2
    /\ history[1] = Record(1, "first", "draft")
    /\ history[2] = Record(2, "second", "none")
    /\ saveExisting["first"] = Record(1, "none", "draft")

====
